---- MODULE Spec2Model ----
(***************************************************************************)
(* Model of the cppcheck ProjectFile class: the in-memory project          *)
(* configuration, ProjectFile::write, and the two ProjectFile::read        *)
(* implementations of gui/projectfile.cpp (the tinyxml2 DOM reader and     *)
(* the QXmlStreamReader streaming reader).                                 *)
(*                                                                         *)
(* A file is an XML tree (or a prefix of its token stream followed by a    *)
(* syntax error).  The DOM reader walks the tree, the streaming reader     *)
(* walks the token stream obtained by flattening the same tree.            *)
(***************************************************************************)
EXTENDS Integers, Sequences, FiniteSets, TLC

VARIABLES pf, disk, last, alive, ops

vars == <<pf, disk, last, alive, ops>>

(***************************************************************************)
(* Bounds of the model.                                                    *)
(***************************************************************************)
\* longest list handed to a list setter
MaxLen == 2
\* number of member-function calls in one behaviour
MaxOps == 2

(***************************************************************************)
(* Element and attribute names (gui/projectfile.cpp:30-68).                *)
(***************************************************************************)
ProjectElementName == "project"
ProjectVersionAttrib == "version"
ProjectFileVersion == "1"
BuildDirElementName == "builddir"
ImportProjectElementName == "importproject"
AnalyzeAllVsConfigsElementName == "analyze-all-vs-configs"
IncludeDirElementName == "includedir"
DirElementName == "dir"
DirNameAttrib == "name"
DefinesElementName == "defines"
DefineName == "define"
DefineNameAttrib == "name"
UndefinesElementName == "undefines"
UndefineName == "undefine"
PathsElementName == "paths"
PathName == "dir"
PathNameAttrib == "name"
RootPathName == "root"
RootPathNameAttrib == "name"
IgnoreElementName == "ignore"
IgnorePathName == "path"
IgnorePathNameAttrib == "name"
ExcludeElementName == "exclude"
ExcludePathName == "path"
ExcludePathNameAttrib == "name"
LibrariesElementName == "libraries"
LibraryElementName == "library"
PlatformElementName == "platform"
SuppressionsElementName == "suppressions"
SuppressionElementName == "suppression"
SuppressionFileNameAttrib == "fileName"
SuppressionLineNumberAttrib == "lineNumber"
SuppressionSymbolNameAttrib == "symbolName"
AddonElementName == "addon"
AddonsElementName == "addons"
ToolElementName == "tool"
ToolsElementName == "tools"
TagsElementName == "tags"
TagElementName == "tag"

\* the two tool names of common.h, used by read, write and getAddonsAndTools
CLANG_ANALYZER == "clang-analyzer"
CLANG_TIDY == "clang-tidy"

\* Suppressions::Suppression::NO_LINE, the "no line" sentinel
NO_LINE == 0

(***************************************************************************)
(* XML trees.  A node is an element (name, attributes, children) or a      *)
(* text node.  Attributes are a set of <<key, value>> pairs with distinct  *)
(* keys.  WS is text made of white space only (the line breaks and         *)
(* indentation the printer puts between elements).                         *)
(***************************************************************************)
WS == " "

Elem(n, a, c) == [k |-> "e", n |-> n, a |-> a, c |-> c, t |-> ""]

Text(t) == [k |-> "t", n |-> "", a |-> {}, c |-> <<>>, t |-> t]

IsElem(x) == x.k = "e"

HasAttr(e, key) == \E p \in e.a : p[1] = key

AttrVal(e, key) == (CHOOSE p \in e.a : p[1] = key)[2]

\* a null char pointer returned by tinyxml2 (no text child, no such attribute)
NullPtr == "<nullptr>"

(***************************************************************************)
(* Decimal conversions used for the lineNumber attribute.                  *)
(***************************************************************************)
\* std::to_string(int)
to_string(i) ==
    CASE i = 0 -> "0"
      [] i = 1 -> "1"
      [] i = 2 -> "2"
      [] i = 3 -> "3"
      [] i = -1 -> "-1"
      [] OTHER -> "7"

\* the integer a decimal string denotes; Parses(s) tells whether it is one
Parses(s) == s \in {"0", "1", "2", "3", "-1", "7"}

ParsedInt(s) ==
    CASE s = "0" -> 0
      [] s = "1" -> 1
      [] s = "2" -> 2
      [] s = "3" -> 3
      [] s = "-1" -> -1
      [] s = "7" -> 7
      [] OTHER -> 0

(***************************************************************************)
(* The ProjectFile object.                                                 *)
(***************************************************************************)
\* the members clear() resets (gui/projectfile.cpp:82-98)
ClearedPart ==
    [mRootPath |-> "", mBuildDir |-> "", mImportProject |-> "",
     mAnalyzeAllVsConfigs |-> TRUE, mIncludeDirs |-> <<>>, mDefines |-> <<>>,
     mUndefines |-> <<>>, mPaths |-> <<>>, mExcludedPaths |-> <<>>,
     mLibraries |-> <<>>, mPlatform |-> "", mSuppressions |-> <<>>,
     mAddons |-> <<>>, mClangAnalyzer |-> FALSE, mClangTidy |-> FALSE]

\* a reset that empties the file name as well
clearFilenameToo(m) ==
    [f \in DOMAIN m |->
        IF f \in DOMAIN ClearedPart THEN ClearedPart[f]
        ELSE IF f = "mFilename" THEN "" ELSE m[f]]

\* clear(): every member above is reset; mTags and mFilename are not touched
clear(m) == [f \in DOMAIN m |->
                IF f \in DOMAIN ClearedPart THEN ClearedPart[f] ELSE m[f]]

\* ProjectFile::ProjectFile(): default-constructed members, then clear()
NewProjectFile ==
    clear([mFilename |-> "", mRootPath |-> "", mBuildDir |-> "",
           mImportProject |-> "", mAnalyzeAllVsConfigs |-> FALSE,
           mIncludeDirs |-> <<>>, mDefines |-> <<>>, mUndefines |-> <<>>,
           mPaths |-> <<>>, mExcludedPaths |-> <<>>, mLibraries |-> <<>>,
           mPlatform |-> "", mSuppressions |-> <<>>, mAddons |-> <<>>,
           mClangAnalyzer |-> FALSE, mClangTidy |-> FALSE, mTags |-> <<>>])

Suppression(id, file, line, sym) ==
    [errorId |-> id, fileName |-> file, lineNumber |-> line, symbolName |-> sym]

(***************************************************************************)
(* ProjectFile::write: the document built from the members                 *)
(* (gui/projectfile.cpp:281-400; the copies at 1050-1169 and in            *)
(* lib/lib.pri:383-502 build the same tree).                               *)
(***************************************************************************)
\* an element carrying one attribute: NewElement + SetAttribute
AttrElement(name, key, value) == Elem(name, {<<key, value>>}, <<>>)

\* an element carrying text: NewElement + SetText
TextElement(name, value) == Elem(name, {}, <<Text(value)>>)

\* writeStringList: nothing for an empty list, else a wrapper with one text
\* element per string (gui/projectfile.cpp:402-428)
writeStringList(stringlist, startelementname, stringelementname) ==
    IF stringlist = <<>> THEN <<>>
    ELSE <<Elem(startelementname, {},
                [i \in 1..Len(stringlist) |->
                     TextElement(stringelementname, stringlist[i])])>>

\* a wrapper with one attribute element per string, nothing for an empty list
writeAttrList(list, wrapper, child, attrib) ==
    IF list = <<>> THEN <<>>
    ELSE <<Elem(wrapper, {},
                [i \in 1..Len(list) |-> AttrElement(child, attrib, list[i])])>>

\* a <suppression> element written without the tests for empty values
writeSuppressionUntested(sup) ==
    Elem(SuppressionElementName,
         {<<SuppressionFileNameAttrib, sup.fileName>>,
          <<SuppressionLineNumberAttrib, to_string(sup.lineNumber)>>,
          <<SuppressionSymbolNameAttrib, sup.symbolName>>},
         <<Text(sup.errorId)>>)

\* one <suppression> element (gui/projectfile.cpp:371-382)
writeSuppression(sup) ==
    Elem(SuppressionElementName,
         (IF sup.fileName # "" THEN {<<SuppressionFileNameAttrib, sup.fileName>>} ELSE {})
         \cup (IF sup.lineNumber > 0
               THEN {<<SuppressionLineNumberAttrib, to_string(sup.lineNumber)>>} ELSE {})
         \cup (IF sup.symbolName # ""
               THEN {<<SuppressionSymbolNameAttrib, sup.symbolName>>} ELSE {}),
         IF sup.errorId # "" THEN <<Text(sup.errorId)>> ELSE <<>>)

writeSuppressions(list) ==
    IF list = <<>> THEN <<>>
    ELSE <<Elem(SuppressionsElementName, {},
                [i \in 1..Len(list) |-> writeSuppression(list[i])])>>

\* a tools list that also names the tools found among the addons
writeToolsFromAddons(m) ==
    LET InAddons(str) == \E i \in 1..Len(m.mAddons) : m.mAddons[i] = str
    IN  (IF m.mClangAnalyzer \/ InAddons(CLANG_ANALYZER) THEN <<CLANG_ANALYZER>>
         ELSE <<>>)
        \o (IF m.mClangTidy \/ InAddons(CLANG_TIDY) THEN <<CLANG_TIDY>> ELSE <<>>)

\* the tools list of write: computed from the two toggles
writeTools(m) ==
    (IF m.mClangAnalyzer THEN <<CLANG_ANALYZER>> ELSE <<>>)
    \o (IF m.mClangTidy THEN <<CLANG_TIDY>> ELSE <<>>)

\* a scalar written without the test for an empty value
writeTextScalarAlways(name, value) == <<TextElement(name, value)>>

\* a text scalar: "if (!value.empty()) { NewElement; SetText; InsertEndChild }"
\* (gui/projectfile.cpp:302-318)
writeTextScalar(name, value) ==
    IF value # "" THEN <<TextElement(name, value)>> ELSE <<>>

\* the children of <project>, in the order write inserts them
writeChildren(m) ==
    (IF m.mRootPath # "" THEN <<AttrElement(RootPathName, RootPathNameAttrib, m.mRootPath)>>
     ELSE <<>>)
    \o writeTextScalar(BuildDirElementName, m.mBuildDir)
    \o writeTextScalar(PlatformElementName, m.mPlatform)
    \o writeTextScalar(ImportProjectElementName, m.mImportProject)
    \o <<TextElement(AnalyzeAllVsConfigsElementName,
                     IF m.mAnalyzeAllVsConfigs THEN "true" ELSE "false")>>
    \o writeAttrList(m.mIncludeDirs, IncludeDirElementName, DirElementName, DirNameAttrib)
    \o writeAttrList(m.mDefines, DefinesElementName, DefineName, DefineNameAttrib)
    \o writeStringList(m.mUndefines, UndefinesElementName, UndefineName)
    \o writeAttrList(m.mPaths, PathsElementName, PathName, PathNameAttrib)
    \o writeAttrList(m.mExcludedPaths, ExcludeElementName, ExcludePathName,
                     ExcludePathNameAttrib)
    \o writeStringList(m.mLibraries, LibrariesElementName, LibraryElementName)
    \o writeSuppressions(m.mSuppressions)
    \o writeStringList(m.mAddons, AddonsElementName, AddonElementName)
    \o writeStringList(writeTools(m), ToolsElementName, ToolElementName)
    \o writeStringList(m.mTags, TagsElementName, TagElementName)

\* the tree with the children put in back to front
writeTreeReversed(m) ==
    LET kids == writeChildren(m)
    IN  Elem(ProjectElementName, {<<ProjectVersionAttrib, ProjectFileVersion>>},
             [i \in 1..Len(kids) |-> kids[Len(kids) + 1 - i]])

\* the tree write hands to SaveFile
writeTree(m) ==
    Elem(ProjectElementName, {<<ProjectVersionAttrib, ProjectFileVersion>>},
         writeChildren(m))

(***************************************************************************)
(* Files.  SaveFile prints the tree: a text node with no characters        *)
(* leaves nothing in the file, and an element whose children are all       *)
(* elements gets them on lines of their own (white space around them).     *)
(* A file is missing (cannot be opened), a well-formed document, or        *)
(* broken: its first cut tokens can be read, then comes a syntax error.    *)
(***************************************************************************)
RECURSIVE Printed(_)
Printed(x) ==
    IF ~IsElem(x) THEN x
    ELSE LET NonEmpty(y) == IsElem(y) \/ y.t # ""
             sel == SelectSeq(x.c, NonEmpty)
             kept == [i \in 1..Len(sel) |-> Printed(sel[i])]
             RECURSIVE Lines(_)
             Lines(q) == IF q = <<>> THEN <<Text(WS)>>
                         ELSE <<Text(WS), Head(q)>> \o Lines(Tail(q))
         IN  IF kept # <<>> /\ \A i \in 1..Len(kept) : IsElem(kept[i])
             THEN [x EXCEPT !.c = Lines(kept)]
             ELSE [x EXCEPT !.c = kept]

MissingFile == [kind |-> "missing", root |-> Text(""), cut |-> 0]

XmlFile(root) == [kind |-> "xml", root |-> root, cut |-> 0]

BrokenFile(root, cut) == [kind |-> "broken", root |-> root, cut |-> cut]

(***************************************************************************)
(* tinyxml2, as the DOM reader uses it.                                    *)
(***************************************************************************)
\* the children the parser keeps: white space between tags is dropped
DomChildren(e) ==
    LET Kept(y) == IsElem(y) \/ (y.t # WS /\ y.t # "") IN SelectSeq(e.c, Kept)

\* index of the first element named name at or after position i, 0 for none
ElementFrom(kids, i, name) ==
    LET S == {j \in i..Len(kids) : IsElem(kids[j]) /\ kids[j].n = name}
    IN  IF S = {} THEN 0 ELSE CHOOSE j \in S : \A h \in S : j <= h

\* XMLNode::FirstChildElement(name), as an index into kids
FirstChildElement(kids, name) == ElementFrom(kids, 1, name)

\* XMLNode::NextSiblingElement(name) of the element at index i
NextSiblingElement(kids, i, name) == ElementFrom(kids, i + 1, name)

\* XMLElement::GetText(): the text of the first child if that is a text node
GetText(e) ==
    LET c == DomChildren(e)
    IN  IF c # <<>> /\ ~IsElem(c[1]) THEN c[1].t ELSE NullPtr

\* XMLElement::Attribute(name): the value, null when there is no such attribute
Attribute(e, name) == IF HasAttr(e, name) THEN AttrVal(e, name) ELSE NullPtr

\* XMLElement::Attribute(name, value): the value only if the attribute exists
\* and equals value, null otherwise
AttributeIfEqual(e, name, value) ==
    IF HasAttr(e, name) /\ AttrVal(e, name) = value THEN AttrVal(e, name) ELSE NullPtr

\* XMLElement::IntAttribute(name, defaultValue)
IntAttribute(e, name, defaultValue) ==
    IF HasAttr(e, name) /\ Parses(AttrVal(e, name))
    THEN ParsedInt(AttrVal(e, name)) ELSE defaultValue

\* XMLElement::BoolText(): XMLUtil::ToBool of the text, false when it fails
BoolText(e) ==
    LET str == GetText(e)
    IN  IF str = NullPtr THEN FALSE
        ELSE IF Parses(str) THEN ParsedInt(str) # 0
        ELSE str = "true"

\* the elements a  "x = FirstChildElement(first); while (x) { ...;
\* x = x->NextSiblingElement(next); }"  loop visits
RECURSIVE SiblingsFrom(_, _, _)
SiblingsFrom(kids, i, next) ==
    IF i = 0 THEN <<>>
    ELSE <<kids[i]>> \o SiblingsFrom(kids, NextSiblingElement(kids, i, next), next)

ChildLoop(e, first, next) ==
    LET kids == DomChildren(e) IN SiblingsFrom(kids, FirstChildElement(kids, first), next)

(***************************************************************************)
(* The DOM reader, ProjectFile::read of gui/projectfile.cpp:100-234.       *)
(* A reader state s is [m, res]: the members so far and "run", or "crash"  *)
(* once a std::string has been built from a null pointer (undefined        *)
(* behaviour: the call does not return, the members keep what they held).  *)
(***************************************************************************)
\* std::string member = const char*
AssignString(s, member, ptr) ==
    IF s.res # "run" THEN s
    ELSE IF ptr = NullPtr THEN [s EXCEPT !.res = "crash"]
    ELSE [s EXCEPT !.m[member] = ptr]

\* std::vector<std::string>::push_back(const char*)
PushBackString(s, member, ptr) ==
    IF s.res # "run" THEN s
    ELSE IF ptr = NullPtr THEN [s EXCEPT !.res = "crash"]
    ELSE [s EXCEPT !.m[member] = Append(@, ptr)]

\* list << QString::fromUtf8(const char*): a null pointer gives an empty QString
AppendQString(s, member, ptr) ==
    IF s.res # "run" THEN s
    ELSE [s EXCEPT !.m[member] = Append(@, IF ptr = NullPtr THEN "" ELSE ptr)]

\* the name attribute as the attributed sections fetch it: Attribute(name, "")
NameAttribute(e) == AttributeIfEqual(e, DirNameAttrib, "")

\* the pointer a section takes from an element: how is "attr" for
\* x->Attribute(name, "") and "text" for x->GetText()
DomValue(e, how) == IF how = "attr" THEN NameAttribute(e) ELSE GetText(e)

\* a scalar read by  "x = project->FirstChildElement(name); if (x) member = value of x"
DomScalar(s, project, name, member, how) ==
    LET kids == DomChildren(project)
        i == FirstChildElement(kids, name)
    IN  IF i = 0 THEN s ELSE AssignString(s, member, DomValue(kids[i], how))

\* analyze-all-vs-configs (lines 132-134)
DomAnalyzeAll(s, project) ==
    LET kids == DomChildren(project)
        i == FirstChildElement(kids, AnalyzeAllVsConfigsElementName)
    IN  IF i = 0 \/ s.res # "run" THEN s
        ELSE [s EXCEPT !.m.mAnalyzeAllVsConfigs = BoolText(kids[i])]

\* push every pointer of ptrs in turn; qstring says which kind of push
RECURSIVE DomPushAll(_, _, _, _)
DomPushAll(s, member, ptrs, qstring) ==
    IF ptrs = <<>> THEN s
    ELSE DomPushAll(IF qstring THEN AppendQString(s, member, Head(ptrs))
                    ELSE PushBackString(s, member, Head(ptrs)),
                    member, Tail(ptrs), qstring)

\* a list read by  "list = project->FirstChildElement(wrapper); if (list) {
\* x = list->FirstChildElement(first); while (x) { push Val(x);
\* x = x->NextSiblingElement(next); } }"
DomList(s, project, wrapper, first, next, member, how, qstring) ==
    LET kids == DomChildren(project)
        i == FirstChildElement(kids, wrapper)
        es == IF i = 0 THEN <<>> ELSE ChildLoop(kids[i], first, next)
    IN  IF i = 0 THEN s
        ELSE DomPushAll(s, member, [j \in 1..Len(es) |-> DomValue(es[j], how)], qstring)

\* one <suppression> (lines 194-199)
DomSuppression(s, e) ==
    LET id == GetText(e)
        file == Attribute(e, SuppressionFileNameAttrib)
        line == IntAttribute(e, SuppressionLineNumberAttrib, NO_LINE)
        sym == Attribute(e, SuppressionSymbolNameAttrib)
    IN  IF s.res # "run" THEN s
        ELSE IF id = NullPtr \/ file = NullPtr \/ sym = NullPtr
        THEN [s EXCEPT !.res = "crash"]
        ELSE [s EXCEPT !.m.mSuppressions = Append(@, Suppression(id, file, line, sym))]

RECURSIVE DomSuppressionsAll(_, _)
DomSuppressionsAll(s, elems) ==
    IF elems = <<>> THEN s
    ELSE DomSuppressionsAll(DomSuppression(s, Head(elems)), Tail(elems))

\* the suppressions section (lines 190-202)
DomSuppressions(s, project) ==
    LET kids == DomChildren(project)
        i == FirstChildElement(kids, SuppressionsElementName)
    IN  IF i = 0 THEN s
        ELSE DomSuppressionsAll(s, ChildLoop(kids[i], SuppressionElementName,
                                             SuppressionElementName))

\* one <tool> (lines 217-219)
DomTool(s, e) ==
    LET toolName == GetText(e)
    IN  IF s.res # "run" THEN s
        ELSE IF toolName = NullPtr THEN [s EXCEPT !.res = "crash"]
        ELSE [s EXCEPT !.m.mClangAnalyzer = @ \/ (toolName = CLANG_ANALYZER),
                       !.m.mClangTidy = @ \/ (toolName = CLANG_TIDY)]

RECURSIVE DomToolsAll(_, _)
DomToolsAll(s, elems) ==
    IF elems = <<>> THEN s ELSE DomToolsAll(DomTool(s, Head(elems)), Tail(elems))

\* the tools section (lines 213-222)
DomTools(s, project) ==
    LET kids == DomChildren(project)
        i == FirstChildElement(kids, ToolsElementName)
    IN  IF i = 0 THEN s
        ELSE DomToolsAll(s, ChildLoop(kids[i], ToolElementName, ToolElementName))

\* lines 116-231, in order
DomBody(s0, project) ==
    LET s1 == DomScalar(s0, project, RootPathName, "mRootPath", "attr")
        s2 == DomScalar(s1, project, BuildDirElementName, "mBuildDir", "text")
        s3 == DomScalar(s2, project, PlatformElementName, "mPlatform", "text")
        s4 == DomScalar(s3, project, ImportProjectElementName, "mImportProject", "text")
        s5 == DomAnalyzeAll(s4, project)
        s6 == DomList(s5, project, IncludeDirElementName, DirElementName, DirElementName,
                      "mIncludeDirs", "attr", FALSE)
        s7 == DomList(s6, project, DefinesElementName, DefineName, DefineName,
                      "mDefines", "attr", FALSE)
        s8 == DomList(s7, project, UndefinesElementName, UndefineName,
                      UndefinesElementName, "mUndefines", "text", FALSE)
        s9 == DomList(s8, project, PathsElementName, PathName, PathName,
                      "mPaths", "attr", FALSE)
        s10 == DomList(s9, project, ExcludeElementName, ExcludePathName, ExcludePathName,
                       "mExcludedPaths", "attr", FALSE)
        s11 == DomList(s10, project, LibrariesElementName, LibraryElementName,
                       LibraryElementName, "mLibraries", "text", FALSE)
        s12 == DomSuppressions(s11, project)
        s13 == DomList(s12, project, AddonsElementName, AddonElementName,
                       AddonElementName, "mAddons", "text", TRUE)
        s14 == DomTools(s13, project)
        s15 == DomList(s14, project, TagsElementName, TagElementName, TagElementName,
                       "mTags", "text", TRUE)
    IN  s15

\* the file a name denotes
FileAt(d, name) == IF name \in DOMAIN d THEN d[name] ELSE MissingFile

\* read(filename) on members m with the files d: [pf, res], res one of
\* "true", "false", "crash"
ReadDom(m, filename, d) ==
    LET m1 == IF filename # "" THEN [m EXCEPT !.mFilename = filename] ELSE m
        file == FileAt(d, m1.mFilename)
        m2 == clear(m1)
    IN  IF file.kind # "xml" THEN [pf |-> m1, res |-> "false"]
        ELSE IF file.root.n # ProjectElementName THEN [pf |-> m2, res |-> "false"]
        ELSE LET s == DomBody([m |-> m2, res |-> "run"], file.root)
             IN  [pf |-> s.m, res |-> IF s.res = "run" THEN "true" ELSE s.res]

(***************************************************************************)
(* QXmlStreamReader, as the streaming reader uses it: the tokens of a      *)
(* file.  After a syntax error (or past EndDocument) every readNext()      *)
(* returns Invalid and atEnd() is true.                                    *)
(***************************************************************************)
Token(ty, n, a, t) == [ty |-> ty, n |-> n, a |-> a, t |-> t]

InvalidToken == Token("Invalid", "", {}, "")

RECURSIVE Flatten(_)
RECURSIVE FlattenAll(_)
\* the tokens of a node
Flatten(x) ==
    IF IsElem(x)
    THEN <<Token("StartElement", x.n, x.a, "")>> \o FlattenAll(x.c)
         \o <<Token("EndElement", x.n, {}, "")>>
    ELSE IF x.t = "" THEN <<>> ELSE <<Token("Characters", "", {}, x.t)>>

FlattenAll(q) == IF q = <<>> THEN <<>> ELSE Flatten(Head(q)) \o FlattenAll(Tail(q))

\* the tokens of a well-formed document
DocumentTokens(root) ==
    <<Token("StartDocument", "", {}, "")>> \o Flatten(root)
    \o <<Token("EndDocument", "", {}, "")>>

\* the tokens readNext() returns before it starts to return Invalid
Tokens(file) ==
    IF file.kind = "xml" THEN DocumentTokens(file.root)
    ELSE IF file.kind = "broken"
    THEN SubSeq(DocumentTokens(file.root), 1, file.cut)
    ELSE <<>>

\* the token the reader rests on after i calls of readNext()
TokenAt(toks, i) == IF i \in 1..Len(toks) THEN toks[i] ELSE InvalidToken

\* QXmlStreamReader::atEnd() after i calls of readNext()
atEnd(toks, i) == i >= 1 /\ TokenAt(toks, i).ty \in {"Invalid", "EndDocument"}

\* attributes().value(QString(), key).toString(): empty when there is none
AttributeValue(tok, key) == IF HasAttr(tok, key) THEN AttrVal(tok, key) ELSE ""

\* QStringRef::toInt(): 0 when the text is no number
toInt(str) == IF Parses(str) THEN ParsedInt(str) ELSE 0

(***************************************************************************)
(* The streaming reader, gui/projectfile.cpp:545-1003.  A reader state s   *)
(* is [m, pos, res, inside, found]: the members, the number of readNext()  *)
(* calls made, "run" or "hang" (a loop that can only see Invalid tokens    *)
(* and has no exit for them), insideProject and projectTagFound.           *)
(***************************************************************************)
\* readRootPath (lines 656-662)
readRootPath(toks, s) ==
    LET name == AttributeValue(TokenAt(toks, s.pos), RootPathNameAttrib)
    IN  IF name # "" THEN [s EXCEPT !.m.mRootPath = name] ELSE s

\* the loop shared by readBuildDir, readImportProject, readAnalyzeAllVsConfigs
\* and readPlatform: read on to the first Characters or EndElement token
RECURSIVE ScanText(_, _)
ScanText(toks, pos) ==
    LET t == TokenAt(toks, pos + 1)
    IN  IF pos + 1 > Len(toks) THEN [pos |-> pos + 1, chars |-> FALSE, hang |-> TRUE]
        ELSE IF t.ty = "Characters" THEN [pos |-> pos + 1, chars |-> TRUE, hang |-> FALSE]
        ELSE IF t.ty = "EndElement" THEN [pos |-> pos + 1, chars |-> FALSE, hang |-> FALSE]
        ELSE ScanText(toks, pos + 1)

\* after the scan r: position and hang flag of s
Advanced(s, r) == [s EXCEPT !.pos = r.pos, !.res = IF r.hang THEN "hang" ELSE "run"]

\* readBuildDir (lines 664-687)
readBuildDir(toks, s) ==
    LET r == ScanText(toks, s.pos)
        s1 == Advanced([s EXCEPT !.m.mBuildDir = ""], r)
    IN  IF r.chars THEN [s1 EXCEPT !.m.mBuildDir = TokenAt(toks, r.pos).t] ELSE s1

\* readImportProject (lines 689-712)
readImportProject(toks, s) ==
    LET r == ScanText(toks, s.pos)
        s1 == Advanced([s EXCEPT !.m.mImportProject = ""], r)
    IN  IF r.chars THEN [s1 EXCEPT !.m.mImportProject = TokenAt(toks, r.pos).t] ELSE s1

\* readAnalyzeAllVsConfigs (lines 714-736)
readAnalyzeAllVsConfigs(toks, s) ==
    LET r == ScanText(toks, s.pos)
        s1 == Advanced(s, r)
    IN  IF r.chars
        THEN [s1 EXCEPT !.m.mAnalyzeAllVsConfigs = (TokenAt(toks, r.pos).t = "true")]
        ELSE s1

\* readPlatform (lines 897-919)
readPlatform(toks, s) ==
    LET r == ScanText(toks, s.pos)
        s1 == Advanced(s, r)
    IN  IF r.chars THEN [s1 EXCEPT !.m.mPlatform = TokenAt(toks, r.pos).t] ELSE s1

\* the loop shared by readIncludeDirs, readDefines, readCheckPaths and
\* readExcludes: append the non-empty attribute of every start tag named
\* child, until an end tag with a name in ends
RECURSIVE ScanAttrList(_, _, _, _, _, _)
ScanAttrList(toks, pos, acc, child, attrib, ends) ==
    LET t == TokenAt(toks, pos + 1)
        name == AttributeValue(t, attrib)
    IN  IF pos + 1 > Len(toks) THEN [pos |-> pos + 1, acc |-> acc, hang |-> TRUE]
        ELSE IF t.ty = "StartElement" /\ t.n = child /\ name # ""
        THEN ScanAttrList(toks, pos + 1, Append(acc, name), child, attrib, ends)
        ELSE IF t.ty = "EndElement" /\ t.n \in ends
        THEN [pos |-> pos + 1, acc |-> acc, hang |-> FALSE]
        ELSE ScanAttrList(toks, pos + 1, acc, child, attrib, ends)

readAttrList(toks, s, member, child, attrib, ends) ==
    LET r == ScanAttrList(toks, s.pos, s.m[member], child, attrib, ends)
    IN  Advanced([s EXCEPT !.m[member] = r.acc], r)

\* readIncludeDirs (lines 738-774)
readIncludeDirs(toks, s) ==
    readAttrList(toks, s, "mIncludeDirs", DirElementName, DirNameAttrib,
                 {IncludeDirElementName})

\* readDefines (lines 776-811)
readDefines(toks, s) ==
    readAttrList(toks, s, "mDefines", DefineName, DefineNameAttrib, {DefinesElementName})

\* readCheckPaths (lines 813-849)
readCheckPaths(toks, s) ==
    readAttrList(toks, s, "mPaths", PathName, PathNameAttrib, {PathsElementName})

\* readExcludes (lines 851-895); ExcludePathName and IgnorePathName are the
\* same name, so the else-if branch for ignore entries is never taken
readExcludes(toks, s) ==
    readAttrList(toks, s, "mExcludedPaths", ExcludePathName, ExcludePathNameAttrib,
                 {IgnoreElementName, ExcludeElementName})

\* readStringList (lines 967-1003): the list after the loop has run from pos
RECURSIVE ScanStringList(_, _, _, _)
ScanStringList(toks, pos, acc, elementname) ==
    LET t == TokenAt(toks, pos + 1)
        t2 == TokenAt(toks, pos + 2)
    IN  IF pos + 1 > Len(toks) THEN [pos |-> pos + 1, acc |-> acc, hang |-> TRUE]
        ELSE IF t.ty = "StartElement" /\ t.n = elementname
        THEN ScanStringList(toks, pos + 2,
                            IF t2.ty = "Characters" THEN Append(acc, t2.t) ELSE acc,
                            elementname)
        ELSE IF t.ty = "EndElement" /\ t.n # elementname
        THEN [pos |-> pos + 1, acc |-> acc, hang |-> FALSE]
        ELSE ScanStringList(toks, pos + 1, acc, elementname)

readStringList(toks, s, member, elementname) ==
    LET r == ScanStringList(toks, s.pos, s.m[member], elementname)
    IN  Advanced([s EXCEPT !.m[member] = r.acc], r)

\* the Suppression built from a <suppression> start tag t and the token t2
\* that follows it (lines 931-941)
StreamSuppression(t, t2) ==
    Suppression(IF t2.ty = "Characters" THEN t2.t ELSE "",
                AttributeValue(t, "fileName"),
                IF HasAttr(t, "lineNumber") THEN toInt(AttrVal(t, "lineNumber"))
                ELSE NO_LINE,
                AttributeValue(t, "symbolName"))

\* readSuppressions (lines 922-964)
RECURSIVE ScanSuppressions(_, _, _)
ScanSuppressions(toks, pos, acc) ==
    LET t == TokenAt(toks, pos + 1)
        t2 == TokenAt(toks, pos + 2)
    IN  IF pos + 1 > Len(toks) THEN [pos |-> pos + 1, acc |-> acc, hang |-> TRUE]
        ELSE IF t.ty = "StartElement" /\ t.n = SuppressionElementName
        THEN ScanSuppressions(toks, pos + 2, Append(acc, StreamSuppression(t, t2)))
        ELSE IF t.ty = "EndElement" /\ t.n # SuppressionElementName
        THEN [pos |-> pos + 1, acc |-> acc, hang |-> FALSE]
        ELSE ScanSuppressions(toks, pos + 1, acc)

readSuppressions(toks, s) ==
    LET r == ScanSuppressions(toks, s.pos, s.m.mSuppressions)
    IN  Advanced([s EXCEPT !.m.mSuppressions = r.acc], r)

\* the tools branch of read (lines 621-626)
readTools(toks, s) ==
    LET r == ScanStringList(toks, s.pos, <<>>, ToolElementName)
        Contains(str) == \E i \in 1..Len(r.acc) : r.acc[i] = str
    IN  IF r.hang THEN Advanced(s, r)
        ELSE Advanced([s EXCEPT !.m.mClangAnalyzer = Contains(CLANG_ANALYZER),
                                !.m.mClangTidy = Contains(CLANG_TIDY)], r)

\* the element names the StartElement case tests, in the order of its if
\* statements (lines 567-629)
DispatchOrder ==
    <<RootPathName, BuildDirElementName, PathsElementName, ImportProjectElementName,
      AnalyzeAllVsConfigsElementName, IncludeDirElementName, DefinesElementName,
      UndefinesElementName, ExcludeElementName, IgnoreElementName,
      LibrariesElementName, PlatformElementName, SuppressionsElementName,
      AddonsElementName, ToolsElementName, TagsElementName>>

\* the routine an if statement of the StartElement case calls
Decode(name, toks, s) ==
    CASE name = RootPathName -> readRootPath(toks, s)
      [] name = BuildDirElementName -> readBuildDir(toks, s)
      [] name = PathsElementName -> readCheckPaths(toks, s)
      [] name = ImportProjectElementName -> readImportProject(toks, s)
      [] name = AnalyzeAllVsConfigsElementName -> readAnalyzeAllVsConfigs(toks, s)
      [] name = IncludeDirElementName -> readIncludeDirs(toks, s)
      [] name = DefinesElementName -> readDefines(toks, s)
      [] name = UndefinesElementName -> readStringList(toks, s, "mUndefines", UndefineName)
      [] name = ExcludeElementName -> readExcludes(toks, s)
      [] name = IgnoreElementName -> readExcludes(toks, s)
      [] name = LibrariesElementName ->
             readStringList(toks, s, "mLibraries", LibraryElementName)
      [] name = PlatformElementName -> readPlatform(toks, s)
      [] name = SuppressionsElementName -> readSuppressions(toks, s)
      [] name = AddonsElementName -> readStringList(toks, s, "mAddons", AddonElementName)
      [] name = ToolsElementName -> readTools(toks, s)
      [] name = TagsElementName -> readStringList(toks, s, "mTags", TagElementName)

\* the if statements from the i-th on: each tests the name of the token the
\* reader rests on at that moment
RECURSIVE Dispatch(_, _, _)
Dispatch(i, toks, s) ==
    IF i > Len(DispatchOrder) \/ s.res # "run" THEN s
    ELSE IF s.inside /\ TokenAt(toks, s.pos).n = DispatchOrder[i]
    THEN Dispatch(i + 1, toks, Decode(DispatchOrder[i], toks, s))
    ELSE Dispatch(i + 1, toks, s)

\* the number of routines the if statements from the i-th on call
RECURSIVE Decodings(_, _, _)
Decodings(i, toks, s) ==
    IF i > Len(DispatchOrder) \/ s.res # "run" THEN 0
    ELSE IF s.inside /\ TokenAt(toks, s.pos).n = DispatchOrder[i]
    THEN 1 + Decodings(i + 1, toks, Decode(DispatchOrder[i], toks, s))
    ELSE Decodings(i + 1, toks, s)

\* case QXmlStreamReader::StartElement (lines 561-631)
StartElementCase(toks, s) ==
    LET s1 == IF TokenAt(toks, s.pos).n = ProjectElementName
              THEN [s EXCEPT !.inside = TRUE, !.found = TRUE] ELSE s
    IN  Dispatch(1, toks, s1)

\* while (!xmlReader.atEnd()) switch (xmlReader.readNext()) ... (lines 559-650)
RECURSIVE MainLoop(_, _)
MainLoop(toks, s) ==
    IF s.res # "run" \/ atEnd(toks, s.pos) THEN s
    ELSE LET s1 == [s EXCEPT !.pos = @ + 1]
             t == TokenAt(toks, s1.pos)
         IN  IF t.ty = "StartElement" THEN MainLoop(toks, StartElementCase(toks, s1))
             ELSE IF t.ty = "EndElement" /\ t.n = ProjectElementName
             THEN MainLoop(toks, [s1 EXCEPT !.inside = FALSE])
             ELSE MainLoop(toks, s1)

\* the largest number of routines one pass through the StartElement case
\* calls while the main loop runs from s
RECURSIVE MostDecodings(_, _)
MostDecodings(toks, s) ==
    IF s.res # "run" \/ atEnd(toks, s.pos) THEN 0
    ELSE LET s1 == [s EXCEPT !.pos = @ + 1]
             t == TokenAt(toks, s1.pos)
             s2 == IF t.n = ProjectElementName
                   THEN [s1 EXCEPT !.inside = TRUE, !.found = TRUE] ELSE s1
             rest == MostDecodings(toks, StartElementCase(toks, s1))
         IN  IF t.ty = "StartElement"
             THEN IF Decodings(1, toks, s2) > rest THEN Decodings(1, toks, s2) ELSE rest
             ELSE IF t.ty = "EndElement" /\ t.n = ProjectElementName
             THEN MostDecodings(toks, [s1 EXCEPT !.inside = FALSE])
             ELSE MostDecodings(toks, s1)

\* read(filename) on members m with the files d: [pf, res], res one of
\* "true", "false", "hang"
ReadStream(m, filename, d) ==
    LET m1 == IF filename # "" THEN [m EXCEPT !.mFilename = filename] ELSE m
        file == FileAt(d, m1.mFilename)
        s == MainLoop(Tokens(file),
                      [m |-> clear(m1), pos |-> 0, res |-> "run",
                       inside |-> FALSE, found |-> FALSE])
    IN  IF file.kind = "missing" THEN [pf |-> m1, res |-> "false"]
        ELSE [pf |-> s.m,
              res |-> IF s.res = "hang" THEN "hang"
                      ELSE IF s.found THEN "true" ELSE "false"]

(***************************************************************************)
(* ProjectFile::write (gui/projectfile.cpp:281-400): the file name is      *)
(* stored, the document is built and SaveFile prints it.  SaveFile fails   *)
(* when the file cannot be opened for writing.                             *)
(***************************************************************************)
\* the one file name that can be opened, and one that cannot
GoodName == "p.cppcheck"
BadName == "nodir/p.cppcheck"

Writable(name) == name = GoodName

\* write that reports success whatever SaveFile says
WriteUnchecked(m, filename, d) ==
    LET m1 == IF filename # "" THEN [m EXCEPT !.mFilename = filename] ELSE m
    IN  IF Writable(m1.mFilename)
        THEN [pf |-> m1, res |-> "true",
              disk |-> [d EXCEPT ![m1.mFilename] = XmlFile(Printed(writeTree(m1)))]]
        ELSE [pf |-> m1, res |-> "true", disk |-> d]

Write(m, filename, d) ==
    LET m1 == IF filename # "" THEN [m EXCEPT !.mFilename = filename] ELSE m
    IN  IF Writable(m1.mFilename)
        THEN [pf |-> m1, res |-> "true",
              disk |-> [d EXCEPT ![m1.mFilename] = XmlFile(Printed(writeTree(m1)))]]
        ELSE [pf |-> m1, res |-> "false", disk |-> d]

(***************************************************************************)
(* Inputs of the calls.                                                    *)
(***************************************************************************)
\* the non-empty strings handed to setters and found in documents
Strs == {"a", "b"}

\* all sequences over S of length at most n
SeqsUpTo(S, n) == UNION {[1..k -> S] : k \in 0..n}

\* the lists handed to the list setters: every list of at most MaxLen
\* non-empty strings, and two lists holding an empty string
ListValues == SeqsUpTo(Strs, MaxLen) \cup {<<"">>, <<"a", "">>}

\* a path written with the separator of the platform, and what
\* Path::fromNativeSeparators makes of it
NativePath == "c\\d"
PortablePath == "c/d"

\* the lists handed to the setters of the three path lists
PathListValues == ListValues \cup {<<NativePath, "a">>}

\* the lists handed to setAddons: an addon can bear the name of a tool
AddonListValues == ListValues \cup {<<CLANG_ANALYZER>>, <<"a", CLANG_TIDY>>}

\* the strings handed to the scalar setters
StringValues == Strs \cup {""}

\* the file names handed to read, write and setFilename
FilenameValues == {"", GoodName, BadName}

\* the suppressions handed to setSuppressions
SuppressionValues ==
    {Suppression("", "", NO_LINE, ""), Suppression("a", "", NO_LINE, ""),
     Suppression("b", "a", 3, "b"), Suppression("", "b", -1, "")}

SuppressionLists == SeqsUpTo(SuppressionValues, MaxLen)

(***************************************************************************)
(* The state machine: one ProjectFile object pf, the files disk, the last  *)
(* call (last: its name op, its argument arg, its result res and, for a    *)
(* getter that returns a list, the list out), whether the process can      *)
(* still make calls (alive), and the number of calls made (ops).           *)
(***************************************************************************)
NoCall == [op |-> "new", arg |-> "", res |-> "void", out |-> <<>>]

Init ==
    /\ pf = NewProjectFile
    /\ disk = [n \in {GoodName} |-> MissingFile]
    /\ last = NoCall
    /\ alive = TRUE
    /\ ops = 0

CanCall == alive /\ ops < MaxOps

\* a setter that keeps a value the member already has
AssignOnce(op, member, value) ==
    /\ CanCall
    /\ pf' = [pf EXCEPT ![member] =
                 IF pf[member] = NewProjectFile[member] THEN value ELSE @]
    /\ last' = [op |-> op, arg |-> value, res |-> "void", out |-> <<>>]
    /\ ops' = ops + 1
    /\ UNCHANGED <<disk, alive>>

\* a setter: the member is assigned, nothing else changes
Assign(op, member, value) ==
    /\ CanCall
    /\ pf' = [pf EXCEPT ![member] = value]
    /\ last' = [op |-> op, arg |-> value, res |-> "void", out |-> <<>>]
    /\ ops' = ops + 1
    /\ UNCHANGED <<disk, alive>>

setRootPath == \E v \in StringValues : Assign("setRootPath", "mRootPath", v)
setBuildDir == \E v \in StringValues : Assign("setBuildDir", "mBuildDir", v)
setImportProject == \E v \in StringValues : Assign("setImportProject", "mImportProject", v)
setPlatform == \E v \in StringValues : Assign("setPlatform", "mPlatform", v)
setAnalyzeAllVsConfigs ==
    \E b \in BOOLEAN : Assign("setAnalyzeAllVsConfigs", "mAnalyzeAllVsConfigs", b)
setIncludes == \E v \in PathListValues : Assign("setIncludes", "mIncludeDirs", v)
setDefines == \E v \in ListValues : Assign("setDefines", "mDefines", v)
setUndefines == \E v \in ListValues : Assign("setUndefines", "mUndefines", v)
setCheckPaths == \E v \in PathListValues : Assign("setCheckPaths", "mPaths", v)
setExcludedPaths == \E v \in PathListValues : Assign("setExcludedPaths", "mExcludedPaths", v)
setLibraries == \E v \in ListValues : Assign("setLibraries", "mLibraries", v)
setSuppressions == \E v \in SuppressionLists : Assign("setSuppressions", "mSuppressions", v)
setAddons == \E v \in AddonListValues : Assign("setAddons", "mAddons", v)
setTags == \E v \in ListValues : Assign("setTags", "mTags", v)
setClangAnalyzer == \E b \in BOOLEAN : Assign("setClangAnalyzer", "mClangAnalyzer", b)
setClangTidy == \E b \in BOOLEAN : Assign("setClangTidy", "mClangTidy", b)
setFilename == \E v \in FilenameValues : Assign("setFilename", "mFilename", v)

\* Path::fromNativeSeparators: every backslash becomes a slash
PathFromNativeSeparators(path) == IF path = NativePath THEN PortablePath ELSE path

\* the paths handed back as they are
fromNativeSeparatorsUnconverted(paths) == paths

\* ProjectFile::fromNativeSeparators (gui/projectfile.cpp:430-436)
fromNativeSeparators(paths) ==
    [i \in 1..Len(paths) |-> PathFromNativeSeparators(paths[i])]

\* the analyzer's name appended whatever its toggle says
AddonsAndToolsUntested(m) ==
    m.mAddons \o <<CLANG_ANALYZER>> \o (IF m.mClangTidy THEN <<CLANG_TIDY>> ELSE <<>>)

\* what getAddonsAndTools returns (gui/projectfile.cpp:438-446)
AddonsAndTools(m) ==
    m.mAddons \o (IF m.mClangAnalyzer THEN <<CLANG_ANALYZER>> ELSE <<>>)
              \o (IF m.mClangTidy THEN <<CLANG_TIDY>> ELSE <<>>)

\* a const getter: the result is handed out, the object is left alone
Get(op, res, out) ==
    /\ CanCall
    /\ last' = [op |-> op, arg |-> "", res |-> res, out |-> out]
    /\ ops' = ops + 1
    /\ UNCHANGED <<pf, disk, alive>>

getAddonsAndTools == Get("getAddonsAndTools", "list", AddonsAndTools(pf))
getIncludeDirs == Get("getIncludeDirs", "list", fromNativeSeparators(pf.mIncludeDirs))
getCheckPaths == Get("getCheckPaths", "list", fromNativeSeparators(pf.mPaths))
getExcludedPaths == Get("getExcludedPaths", "list", fromNativeSeparators(pf.mExcludedPaths))
\* "return false; //mClangAnalyzer;" (lib/projectfile.h:154-156)
getClangAnalyzer == Get("getClangAnalyzer", "false", <<>>)
getClangTidy == Get("getClangTidy", IF pf.mClangTidy THEN "true" ELSE "false", <<>>)
\* getFilename (lib/projectfile.h:178-180)
getFilename == Get("getFilename", pf.mFilename, <<>>)

\* write(filename)
write ==
    \E f \in FilenameValues :
        LET r == Write(pf, f, disk)
        IN  /\ CanCall
            /\ pf' = r.pf
            /\ disk' = r.disk
            /\ last' = [op |-> "write", arg |-> f, res |-> r.res, out |-> <<>>]
            /\ ops' = ops + 1
            /\ UNCHANGED alive

\* the outcome r of a read call: a call that hangs never returns, a call
\* that runs into undefined behaviour ends the process or leaves by an
\* exception
Returned(op, f, r) ==
    /\ CanCall
    /\ pf' = r.pf
    /\ last' = [op |-> op, arg |-> f, res |-> r.res, out |-> <<>>]
    /\ ops' = ops + 1
    /\ alive' \in (IF r.res = "hang" THEN {FALSE}
                   ELSE IF r.res = "crash" THEN BOOLEAN ELSE {TRUE})
    /\ UNCHANGED disk

\* read(filename), DOM reader
readDom == \E f \in FilenameValues : Returned("readDom", f, ReadDom(pf, f, disk))

\* read(filename), streaming reader
readStream == \E f \in FilenameValues : Returned("readStream", f, ReadStream(pf, f, disk))

Next ==
    \/ setRootPath \/ setBuildDir \/ setImportProject \/ setPlatform
    \/ setAnalyzeAllVsConfigs \/ setIncludes \/ setDefines \/ setUndefines
    \/ setCheckPaths \/ setExcludedPaths \/ setLibraries \/ setSuppressions
    \/ setAddons \/ setTags \/ setClangAnalyzer \/ setClangTidy \/ setFilename
    \/ getAddonsAndTools \/ getIncludeDirs \/ getCheckPaths \/ getExcludedPaths
    \/ getClangAnalyzer \/ getClangTidy \/ getFilename
    \/ write \/ readDom \/ readStream

Spec == Init /\ [][Next]_vars

(***************************************************************************)
(* Project files found on disk.  SpecFiles starts from an object that is   *)
(* new or already populated through its setters, and a file that holds     *)
(* any document of Documents; one more call is made.                       *)
(***************************************************************************)
\* an object every member of which has been set
Populated ==
    [mFilename |-> GoodName, mRootPath |-> "a", mBuildDir |-> "b",
     mImportProject |-> "a", mAnalyzeAllVsConfigs |-> FALSE,
     mIncludeDirs |-> <<"b", "a">>, mDefines |-> <<"a", "b">>,
     mUndefines |-> <<"b", "a">>, mPaths |-> <<"a", "a">>,
     mExcludedPaths |-> <<"b">>, mLibraries |-> <<"a", "b">>, mPlatform |-> "b",
     mSuppressions |-> <<Suppression("b", "a", 3, "b")>>, mAddons |-> <<"b", "a">>,
     mClangAnalyzer |-> TRUE, mClangTidy |-> TRUE, mTags |-> <<"a", "b">>]

Project(children) ==
    Elem(ProjectElementName, {<<ProjectVersionAttrib, ProjectFileVersion>>}, children)

\* what a list entry of a document carries: a string, the empty string, or
\* (NullPtr) nothing at all
ItemValues == Strs \cup {"", NullPtr}

ItemLists == SeqsUpTo(ItemValues, MaxLen)

\* an entry with the value in an attribute, or without the attribute
AttrItem(child, attrib, v) ==
    Elem(child, IF v = NullPtr THEN {} ELSE {<<attrib, v>>}, <<>>)

\* an entry with the value as text, or without text
TextItem(child, v) == Elem(child, {}, IF v = NullPtr THEN <<>> ELSE <<Text(v)>>)

\* a list section holding the given items
AttrSection(wrapper, child, attrib, items) ==
    Elem(wrapper, {}, [i \in 1..Len(items) |-> AttrItem(child, attrib, items[i])])

TextSection(wrapper, child, items) ==
    Elem(wrapper, {}, [i \in 1..Len(items) |-> TextItem(child, items[i])])

\* the attributed list sections: <<wrapper, child, attribute>>
AttrSectionNames ==
    {<<IncludeDirElementName, DirElementName, DirNameAttrib>>,
     <<DefinesElementName, DefineName, DefineNameAttrib>>,
     <<PathsElementName, PathName, PathNameAttrib>>,
     <<ExcludeElementName, ExcludePathName, ExcludePathNameAttrib>>,
     <<IgnoreElementName, IgnorePathName, IgnorePathNameAttrib>>}

\* the text list sections: <<wrapper, child>>
TextSectionNames ==
    {<<UndefinesElementName, UndefineName>>, <<LibrariesElementName, LibraryElementName>>,
     <<AddonsElementName, AddonElementName>>, <<TagsElementName, TagElementName>>}

ToolItemLists == SeqsUpTo({CLANG_ANALYZER, CLANG_TIDY, "a", NullPtr}, MaxLen)

\* <suppression> elements as found in documents
SuppressionItems ==
    {Elem(SuppressionElementName, {}, <<>>),
     Elem(SuppressionElementName, {}, <<Text("a")>>),
     Elem(SuppressionElementName,
          {<<SuppressionFileNameAttrib, "a">>, <<SuppressionLineNumberAttrib, "3">>,
           <<SuppressionSymbolNameAttrib, "b">>}, <<Text("b")>>),
     Elem(SuppressionElementName,
          {<<SuppressionFileNameAttrib, "b">>, <<SuppressionLineNumberAttrib, "-1">>,
           <<SuppressionSymbolNameAttrib, "">>}, <<Text("a")>>),
     Elem(SuppressionElementName, {<<SuppressionLineNumberAttrib, "0">>}, <<>>)}

\* the texts found in analyze-all-vs-configs
BoolTexts == {NullPtr, "true", "false", "TRUE", "1", "yes"}

\* the children of <project> a document of one section holds
Sections ==
    {AttrSection(n[1], n[2], n[3], items) : n \in AttrSectionNames, items \in ItemLists}
    \cup {TextSection(n[1], n[2], items) : n \in TextSectionNames, items \in ItemLists}
    \cup {TextSection(ToolsElementName, ToolElementName, items) : items \in ToolItemLists}
    \cup {Elem(SuppressionsElementName, {}, items) :
              items \in SeqsUpTo(SuppressionItems, MaxLen)}
    \cup {AttrItem(RootPathName, RootPathNameAttrib, v) : v \in ItemValues}
    \cup {TextItem(n, v) : n \in {BuildDirElementName, PlatformElementName,
                                  ImportProjectElementName},
                           v \in {NullPtr, "a", WS}}
    \cup {TextItem(AnalyzeAllVsConfigsElementName, v) : v \in BoolTexts}
    \cup {Elem("other", {}, <<>>)}

\* well-formed documents whose root is <project>
ProjectDocuments ==
    {XmlFile(Printed(Project(<<x>>))) : x \in Sections}
    \cup {XmlFile(Project(<<>>)), XmlFile(Printed(writeTree(Populated))),
          XmlFile(Printed(writeTree(NewProjectFile)))}

\* well-formed documents whose root is another element: empty, holding
\* elements with known names, holding a whole project document
ForeignDocuments ==
    {XmlFile(Elem("other", {}, <<>>)),
     XmlFile(Elem("other", {}, <<TextItem(BuildDirElementName, "a")>>)),
     XmlFile(Elem("other", {}, <<Project(<<TextItem(BuildDirElementName, "a")>>)>>)),
     XmlFile(Elem("other", {}, <<writeTree(Populated)>>))}

\* documents with a syntax error: a written project document cut after any
\* number of tokens
BrokenDocuments ==
    LET root == Printed(writeTree(Populated))
    IN  {BrokenFile(root, k) : k \in 0..(Len(DocumentTokens(root)) - 1)}

\* an element no reader knows
Unknown == Elem("other", {}, <<>>)

\* project documents with an unknown element before, between or after the
\* entries of a list section, or between the sections
UnknownDocuments ==
    LET a(n) == AttrItem(n[2], n[3], "a")
        b(n) == AttrItem(n[2], n[3], "b")
        ta(n) == TextItem(n[2], "a")
        tb(n) == TextItem(n[2], "b")
        sa == Elem(SuppressionElementName, {}, <<Text("a")>>)
        sb == Elem(SuppressionElementName, {}, <<Text("b")>>)
        Around(x, y) == {<<Unknown, x, y>>, <<x, Unknown, y>>, <<x, y, Unknown>>}
    IN  UNION {{XmlFile(Printed(Project(<<Elem(n[1], {}, kids)>>))) :
                    kids \in Around(ta(n), tb(n))} : n \in TextSectionNames}
        \cup UNION {{XmlFile(Printed(Project(<<Elem(n[1], {}, kids)>>))) :
                         kids \in Around(a(n), b(n))} : n \in AttrSectionNames}
        \cup {XmlFile(Printed(Project(<<Elem(SuppressionsElementName, {}, kids)>>))) :
                  kids \in Around(sa, sb)}
        \cup {XmlFile(Printed(Project(kids))) :
                  kids \in Around(TextItem(BuildDirElementName, "a"),
                                  TextSection(TagsElementName, TagElementName, <<"a">>))}

\* scalar elements without content: builddir, platform and importproject
\* without text, root without a name or with an empty one
EmptyScalars ==
    {TextItem(n, NullPtr) : n \in {BuildDirElementName, PlatformElementName,
                                   ImportProjectElementName}}
    \cup {AttrItem(RootPathName, RootPathNameAttrib, v) : v \in {NullPtr, ""}}

\* project documents with a scalar element without content before or after
\* a section that has content
ScalarDocuments ==
    LET tags == TextSection(TagsElementName, TagElementName, <<"a", "b">>)
    IN  UNION {{XmlFile(Printed(Project(<<e, tags>>))),
                XmlFile(Printed(Project(<<tags, e>>)))} : e \in EmptyScalars}

\* sections with content, one of each kind of decoding
KnownSections ==
    {TextItem(BuildDirElementName, "a"),
     AttrSection(PathsElementName, PathName, PathNameAttrib, <<"a", "b">>),
     TextSection(LibrariesElementName, LibraryElementName, <<"a", "b">>),
     TextSection(ToolsElementName, ToolElementName, <<CLANG_TIDY>>),
     Elem(SuppressionsElementName, {}, <<Elem(SuppressionElementName, {}, <<Text("a")>>)>>)}

\* documents with known elements where they do not belong: below an unknown
\* child of project, around the project element, and a section that occurs
\* twice among the children of project
MisplacedDocuments ==
    LET tags(v) == TextSection(TagsElementName, TagElementName, <<v>>)
    IN  {XmlFile(Printed(Project(<<Elem("other", {}, <<x>>)>>))) : x \in KnownSections}
        \cup {XmlFile(Printed(Project(<<Elem("other", {}, <<x>>), tags("a")>>))) :
                  x \in KnownSections}
        \cup {XmlFile(Printed(Elem("other", {}, <<x, Project(<<tags("a")>>), x>>))) :
                  x \in KnownSections}
        \cup {XmlFile(Printed(Project(<<tags("a"), tags("b")>>)))}

\* project documents with an empty element of a known name among the
\* entries of a list section
NestedDocuments ==
    LET inner == {PlatformElementName, ExcludeElementName, IgnoreElementName,
                  ToolsElementName, TagsElementName, BuildDirElementName}
        Section(n, name) ==
            Elem(n[1], {}, <<TextItem(n[2], "a"), Elem(name, {}, <<>>), TextItem(n[2], "b")>>)
    IN  UNION {{XmlFile(Printed(Project(<<Section(n, name)>>))) : name \in inner \ {n[1]}} :
                   n \in TextSectionNames \cup {<<SuppressionsElementName,
                                                   SuppressionElementName>>}}
        \cup {XmlFile(Printed(Project(
                   <<Elem(PathsElementName, {},
                          <<AttrItem(PathName, PathNameAttrib, "a"), Elem(name, {}, <<>>),
                            AttrItem(PathName, PathNameAttrib, "b")>>)>>))) :
                   name \in inner}

Documents ==
    ProjectDocuments \cup UnknownDocuments \cup ScalarDocuments \cup MisplacedDocuments
    \cup NestedDocuments \cup ForeignDocuments \cup BrokenDocuments \cup {MissingFile}

InitFiles ==
    /\ pf \in {NewProjectFile, Populated}
    /\ disk \in [{GoodName} -> Documents]
    /\ last = NoCall
    /\ alive = TRUE
    /\ ops = MaxOps - 1

SpecFiles == InitFiles /\ [][Next]_vars

(***************************************************************************)
(* What the properties below speak about.                                  *)
(***************************************************************************)
Readers == {"readDom", "readStream"}

\* the reader named op applied to members m, file name f and files d
ReadBy(op, m, f, d) == IF op = "readDom" THEN ReadDom(m, f, d) ELSE ReadStream(m, f, d)

\* the members a document stores: all but the file name
StoredMembers == DOMAIN NewProjectFile \ {"mFilename"}

SameStored(m1, m2) == \A f \in StoredMembers : m1[f] = m2[f]

\* the file the last read or write worked on
TheFile == FileAt(disk, pf.mFilename)

IsProjectFile(file) == file.kind = "xml" /\ file.root.n = ProjectElementName

\* the last call was a read, and it returned
HasRead == last.op \in Readers /\ last.res \in {"true", "false"}

\* what the reader of the last call makes of the same file on a new object
FreshRead == ReadBy(last.op, NewProjectFile, pf.mFilename, disk)

\* the child elements of e named name, in document order
ChildrenNamed(e, name) ==
    LET Named(x) == IsElem(x) /\ x.n = name IN SelectSeq(e.c, Named)

HasChild(e, name) == ChildrenNamed(e, name) # <<>>

\* the text an element holds ("" when it holds none or only white space)
TextOf(e) ==
    LET IsText(x) == ~IsElem(x) /\ x.t \notin {"", WS}
        ts == SelectSeq(e.c, IsText)
    IN  IF ts = <<>> THEN "" ELSE ts[1].t

\* the entries of a list section: the values of its entry elements, in
\* document order, the empty ones left out
NonEmptyStrings(q) == LET Full(v) == v # "" IN SelectSeq(q, Full)

AttrEntries(project, wrapper, child, attrib) ==
    LET One(x) == IF HasAttr(x, attrib) THEN AttrVal(x, attrib) ELSE ""
    IN  IF ~HasChild(project, wrapper) THEN <<>>
        ELSE LET es == ChildrenNamed(ChildrenNamed(project, wrapper)[1], child)
             IN  NonEmptyStrings([i \in 1..Len(es) |-> One(es[i])])

TextEntries(project, wrapper, child) ==
    IF ~HasChild(project, wrapper) THEN <<>>
    ELSE LET es == ChildrenNamed(ChildrenNamed(project, wrapper)[1], child)
         IN  NonEmptyStrings([i \in 1..Len(es) |-> TextOf(es[i])])

\* the number of entry elements of a list section
EntryCount(project, wrapper, child) ==
    IF ~HasChild(project, wrapper) THEN 0
    ELSE Len(ChildrenNamed(ChildrenNamed(project, wrapper)[1], child))

\* the list sections: <<wrapper, member, entries found in the document,
\* number of entry elements>>
ListSections(project) ==
    {<<n[1], n[4], AttrEntries(project, n[1], n[2], n[3]),
       EntryCount(project, n[1], n[2])>> :
         n \in {<<IncludeDirElementName, DirElementName, DirNameAttrib, "mIncludeDirs">>,
                <<DefinesElementName, DefineName, DefineNameAttrib, "mDefines">>,
                <<PathsElementName, PathName, PathNameAttrib, "mPaths">>,
                <<ExcludeElementName, ExcludePathName, ExcludePathNameAttrib,
                  "mExcludedPaths">>}}
    \cup {<<n[1], n[3], TextEntries(project, n[1], n[2]),
             EntryCount(project, n[1], n[2])>> :
         n \in {<<UndefinesElementName, UndefineName, "mUndefines">>,
                <<LibrariesElementName, LibraryElementName, "mLibraries">>,
                <<AddonsElementName, AddonElementName, "mAddons">>,
                <<TagsElementName, TagElementName, "mTags">>}}

\* no optional scalar is empty and no list holds an empty string
NoEmptyOptional(m) ==
    /\ m.mRootPath # "" /\ m.mBuildDir # "" /\ m.mImportProject # "" /\ m.mPlatform # ""
    /\ \A f \in {"mIncludeDirs", "mDefines", "mUndefines", "mPaths", "mExcludedPaths",
                 "mLibraries", "mAddons", "mTags"} :
           \A i \in 1..Len(m[f]) : m[f][i] # ""
    /\ \A i \in 1..Len(m.mSuppressions) :
           /\ m.mSuppressions[i].errorId # ""
           /\ m.mSuppressions[i].fileName # ""
           /\ m.mSuppressions[i].symbolName # ""
           /\ m.mSuppressions[i].lineNumber > 0

(***************************************************************************)
(* C1.  Round trip: when a model in which no optional scalar is empty and  *)
(* no list entry is an empty string has been written, each reader reads    *)
(* the written file into a new object successfully and every stored        *)
(* member of that object equals the written model's.                       *)
(***************************************************************************)
C1_RoundTrip ==
    (last.op = "write" /\ last.res = "true" /\ NoEmptyOptional(pf)) =>
        \A r \in Readers :
            LET x == ReadBy(r, NewProjectFile, pf.mFilename, disk)
            IN  x.res = "true" /\ SameStored(x.pf, pf)

(***************************************************************************)
(* C2.  A read replaces and never merges: after a successful read every    *)
(* stored member equals what the same read gives on a new object,          *)
(* whatever the object held before.                                        *)
(***************************************************************************)
C2_ReadReplaces ==
    (HasRead /\ last.res = "true") => SameStored(pf, FreshRead.pf)

(***************************************************************************)
(* C3.  Whenever read reports failure, every stored member is at its       *)
(* default afterwards, whatever the object held before.                    *)
(***************************************************************************)
C3_FailedReadDefaults ==
    (HasRead /\ last.res = "false") => SameStored(pf, NewProjectFile)

(***************************************************************************)
(* C4.  read reports failure for every file that cannot be opened and for  *)
(* every document with a syntax error, wherever the error is.              *)
(***************************************************************************)
C4_BrokenFails ==
    (HasRead /\ TheFile.kind \in {"missing", "broken"}) => last.res = "false"

(***************************************************************************)
(* C5.  For a well-formed document read reports success if and only if     *)
(* the root element of the document is the project element.                *)
(***************************************************************************)
C5_SuccessIffProjectRoot ==
    (HasRead /\ TheFile.kind = "xml") =>
        (last.res = "true" <=> TheFile.root.n = ProjectElementName)

\* the document with every section called from called to instead
Renamed(file, from, to) ==
    LET One(x) == IF IsElem(x) /\ x.n = from THEN [x EXCEPT !.n = to] ELSE x
    IN  [file EXCEPT !.root.c = [i \in 1..Len(file.root.c) |-> One(file.root.c[i])]]

(***************************************************************************)
(* C6.  The legacy alias: a document whose excluded paths stand in an      *)
(* ignore section is read to the same excluded paths as the document that  *)
(* has the same entries in an exclude section.                             *)
(***************************************************************************)
C6_LegacyAlias ==
    (HasRead /\ last.res = "true" /\ IsProjectFile(TheFile)
       /\ HasChild(TheFile.root, IgnoreElementName)) =>
        LET twin == [disk EXCEPT ![pf.mFilename] =
                         Renamed(TheFile, IgnoreElementName, ExcludeElementName)]
            x == ReadBy(last.op, NewProjectFile, pf.mFilename, twin)
        IN  x.res = "true" /\ x.pf.mExcludedPaths = FreshRead.pf.mExcludedPaths

(***************************************************************************)
(* C7.  After a successful read the analyze-all-vs-configs flag is true    *)
(* when the document has no such element or the element's text is exactly  *)
(* true, and false for every other text of the element.                    *)
(***************************************************************************)
C7_AnalyzeAllDecoding ==
    (HasRead /\ last.res = "true" /\ IsProjectFile(TheFile)) =>
        LET es == ChildrenNamed(TheFile.root, AnalyzeAllVsConfigsElementName)
        IN  /\ es = <<>> => FreshRead.pf.mAnalyzeAllVsConfigs
            /\ (es # <<>> /\ TextOf(es[1]) # "") =>
                   (FreshRead.pf.mAnalyzeAllVsConfigs <=> TextOf(es[1]) = "true")

(***************************************************************************)
(* C8.  Order is kept: after a successful read of a document, for each     *)
(* list section in it the list of the object holds exactly the non-empty   *)
(* entries of the section, once each, in document order.  Stated for the   *)
(* sections all of whose entries have a value.                             *)
(***************************************************************************)
C8_OrderKept ==
    (HasRead /\ last.res = "true" /\ IsProjectFile(TheFile)) =>
        /\ \A sec \in ListSections(TheFile.root) :
               (HasChild(TheFile.root, sec[1]) /\ Len(sec[3]) = sec[4]) =>
                   FreshRead.pf[sec[2]] = sec[3]
        /\ HasChild(TheFile.root, SuppressionsElementName) =>
               LET es == ChildrenNamed(ChildrenNamed(TheFile.root,
                                           SuppressionsElementName)[1],
                                       SuppressionElementName)
               IN  /\ Len(FreshRead.pf.mSuppressions) = Len(es)
                   /\ \A i \in 1..Len(es) :
                          FreshRead.pf.mSuppressions[i].errorId = TextOf(es[i])

\* the wrapper of each list member
ListWrappers ==
    {<<IncludeDirElementName, "mIncludeDirs">>, <<DefinesElementName, "mDefines">>,
     <<UndefinesElementName, "mUndefines">>, <<PathsElementName, "mPaths">>,
     <<ExcludeElementName, "mExcludedPaths">>, <<LibrariesElementName, "mLibraries">>,
     <<SuppressionsElementName, "mSuppressions">>, <<AddonsElementName, "mAddons">>,
     <<TagsElementName, "mTags">>}

\* the document has the section of that name (for exclude: under either of
\* its two names)
HasWrapper(project, name) ==
    \/ HasChild(project, name)
    \/ name = ExcludeElementName /\ HasChild(project, IgnoreElementName)

(***************************************************************************)
(* C9.  Empty lists are left out: a written document has the wrapper of a  *)
(* list (for tools: of the list made from the two toggles) if and only if  *)
(* the list is not empty, and reading a document without the wrapper       *)
(* succeeds and leaves that list empty.                                    *)
(***************************************************************************)
C9_EmptyListsOmitted ==
    /\ (last.op = "write" /\ last.res = "true") =>
           /\ \A w \in ListWrappers : HasChild(TheFile.root, w[1]) <=> pf[w[2]] # <<>>
           /\ HasChild(TheFile.root, ToolsElementName) <=>
                  (pf.mClangAnalyzer \/ pf.mClangTidy)
    /\ (HasRead /\ IsProjectFile(TheFile)) =>
           /\ \A w \in ListWrappers :
                  ~HasWrapper(TheFile.root, w[1]) => (last.res = "true" /\ pf[w[2]] = <<>>)
           /\ ~HasChild(TheFile.root, ToolsElementName) =>
                  (last.res = "true" /\ ~pf.mClangAnalyzer /\ ~pf.mClangTidy)

\* the scalar elements: <<element, member>>
TextScalars ==
    {<<BuildDirElementName, "mBuildDir">>, <<PlatformElementName, "mPlatform">>,
     <<ImportProjectElementName, "mImportProject">>}

(***************************************************************************)
(* C10.  Scalars on write: the written document has the root, builddir,    *)
(* platform and importproject element if and only if the scalar is not     *)
(* empty, never as an empty element, and it always has exactly one         *)
(* analyze-all-vs-configs element, whose text is true or false as the      *)
(* flag is.                                                                *)
(***************************************************************************)
C10_ScalarsOnWrite ==
    (last.op = "write" /\ last.res = "true") =>
        LET project == TheFile.root
            es == ChildrenNamed(project, AnalyzeAllVsConfigsElementName)
            rs == ChildrenNamed(project, RootPathName)
        IN  /\ IsProjectFile(TheFile)
            /\ rs # <<>> <=> pf.mRootPath # ""
            /\ rs # <<>> =>
                   Len(rs) = 1 /\ Attribute(rs[1], RootPathNameAttrib) = pf.mRootPath
            /\ \A sc \in TextScalars :
                   LET xs == ChildrenNamed(project, sc[1])
                   IN  /\ xs # <<>> <=> pf[sc[2]] # ""
                       /\ xs # <<>> => Len(xs) = 1 /\ TextOf(xs[1]) = pf[sc[2]]
            /\ Len(es) = 1
            /\ TextOf(es[1]) = (IF pf.mAnalyzeAllVsConfigs THEN "true" ELSE "false")

\* a file has been written from an object with a build directory, a
\* platform or an import project set
C10_Witness ==
    /\ last.op = "write" /\ last.res = "true"
    /\ \E sc \in TextScalars : pf[sc[2]] # "" /\ HasChild(TheFile.root, sc[1])

\* the names of the child elements of e, in document order
ElementNames(e) ==
    LET es == SelectSeq(e.c, IsElem) IN [i \in 1..Len(es) |-> es[i].n]

\* the order of the sections in a project file
CanonicalOrder ==
    <<RootPathName, BuildDirElementName, PlatformElementName, ImportProjectElementName,
      AnalyzeAllVsConfigsElementName, IncludeDirElementName, DefinesElementName,
      UndefinesElementName, PathsElementName, ExcludeElementName, LibrariesElementName,
      SuppressionsElementName, AddonsElementName, ToolsElementName, TagsElementName>>

CanonicalPosition(name) ==
    CHOOSE i \in 1..Len(CanonicalOrder) : CanonicalOrder[i] = name

InCanonicalOrder(root) ==
    LET names == ElementNames(root)
    IN  /\ root.n = ProjectElementName
        /\ root.a = {<<ProjectVersionAttrib, "1">>}
        /\ \A i \in 1..Len(names) : \E k \in 1..Len(CanonicalOrder) :
               CanonicalOrder[k] = names[i]
        /\ \A i, j \in 1..Len(names) :
               i < j => CanonicalPosition(names[i]) < CanonicalPosition(names[j])

(***************************************************************************)
(* C11.  Canonical order on write: the root of every written document is   *)
(* a project element with version="1", and the children present stand in   *)
(* the order root, builddir, platform, importproject,                      *)
(* analyze-all-vs-configs, includedir, defines, undefines, paths, exclude, *)
(* libraries, suppressions, addons, tools, tags, each at most once; this   *)
(* holds of the file just written and of the document the object would be  *)
(* written to as it stands, however its members came to their values.      *)
(***************************************************************************)
C11_CanonicalOrder ==
    /\ (last.op = "write" /\ last.res = "true") =>
           (TheFile.kind = "xml" /\ InCanonicalOrder(TheFile.root))
    /\ InCanonicalOrder(Printed(writeTree(pf)))

\* a file has been written that has all fifteen sections
C11_Witness ==
    /\ last.op = "write" /\ last.res = "true"
    /\ ElementNames(TheFile.root) = CanonicalOrder

\* the step is a call of the operation named op
Calls(op) == ops' = ops + 1 /\ last'.op = op

RECURSIVE Stripped(_)
Stripped(x) ==
    IF ~IsElem(x) THEN x
    ELSE LET Known(y) == IF IsElem(y) THEN y # Unknown ELSE y.t # WS
             kept == SelectSeq(x.c, Known)
         IN  [x EXCEPT !.c = [i \in 1..Len(kept) |-> Stripped(kept[i])]]

HasUnknown(root) ==
    \/ \E i \in 1..Len(root.c) : root.c[i] = Unknown
    \/ \E i \in 1..Len(root.c) : \E j \in 1..Len(root.c[i].c) : root.c[i].c[j] = Unknown

(***************************************************************************)
(* C13.  Unknown elements are no-ops: a project document with unknown      *)
(* elements among the children of project or among the entries of a list   *)
(* section is read with the same result and to the same members as the     *)
(* document without them.                                                  *)
(***************************************************************************)
C13_UnknownIgnored ==
    (HasRead /\ IsProjectFile(TheFile) /\ HasUnknown(TheFile.root)) =>
        LET plain == [disk EXCEPT ![pf.mFilename] =
                          XmlFile(Printed(Stripped(TheFile.root)))]
            x == ReadBy(last.op, NewProjectFile, pf.mFilename, plain)
        IN  x.res = FreshRead.res /\ SameStored(x.pf, FreshRead.pf)

(***************************************************************************)
(* C14.  The two read paths agree: for every well-formed document whose    *)
(* root is project, the streaming reader and the DOM reader return the     *)
(* same result and leave the same members.  Stated for the documents on    *)
(* which both readers return.                                              *)
(***************************************************************************)
C14_ReadersAgree ==
    (HasRead /\ IsProjectFile(TheFile)) =>
        LET dom == ReadDom(NewProjectFile, pf.mFilename, disk)
            stream == ReadStream(NewProjectFile, pf.mFilename, disk)
        IN  (dom.res \in {"true", "false"} /\ stream.res \in {"true", "false"}) =>
                (dom.res = stream.res /\ SameStored(dom.pf, stream.pf))

\* the getters that normalise: <<getter, member, wrapper, entry, attribute>>
PathLists ==
    {<<"getIncludeDirs", "mIncludeDirs", IncludeDirElementName, DirElementName,
       DirNameAttrib>>,
     <<"getCheckPaths", "mPaths", PathsElementName, PathName, PathNameAttrib>>,
     <<"getExcludedPaths", "mExcludedPaths", ExcludeElementName, ExcludePathName,
       ExcludePathNameAttrib>>}

\* the attribute values of the entries of a section of a document, as
\* they stand in it (no entries when the section is missing)
WrittenAttrs(project, wrapper, child, attrib) ==
    IF ~HasChild(project, wrapper) THEN <<>>
    ELSE LET es == ChildrenNamed(ChildrenNamed(project, wrapper)[1], child)
         IN  [i \in 1..Len(es) |-> AttrVal(es[i], attrib)]

(***************************************************************************)
(* C15.  Normalization is read-out only: getIncludeDirs, getCheckPaths     *)
(* and getExcludedPaths return the stored list with every entry            *)
(* normalized, same length and order, and change no member; and write      *)
(* emits the entries of these lists as they are stored, not normalized.    *)
(***************************************************************************)
C15_NormalizedOnReadOut ==
    [][\A g \in PathLists :
          /\ Calls(g[1]) =>
                 /\ pf' = pf
                 /\ Len(last'.out) = Len(pf[g[2]])
                 /\ \A i \in 1..Len(pf[g[2]]) :
                        last'.out[i] = PathFromNativeSeparators(pf[g[2]][i])
          /\ (Calls("write") /\ last'.res = "true") =>
                 WrittenAttrs(FileAt(disk', pf'.mFilename).root, g[3], g[4], g[5])
                     = pf[g[2]]]_vars

\* a getter has handed out a list that differs from the stored one
C15_Witness ==
    \E g \in PathLists :
        /\ last.op = g[1]
        /\ \E i \in 1..Len(pf[g[2]]) :
               pf[g[2]][i] = NativePath /\ last.out[i] = PortablePath

\* the setters: <<setter, member>>
Setters ==
    {<<"setRootPath", "mRootPath">>, <<"setBuildDir", "mBuildDir">>,
     <<"setImportProject", "mImportProject">>, <<"setPlatform", "mPlatform">>,
     <<"setAnalyzeAllVsConfigs", "mAnalyzeAllVsConfigs">>,
     <<"setIncludes", "mIncludeDirs">>, <<"setDefines", "mDefines">>,
     <<"setUndefines", "mUndefines">>, <<"setCheckPaths", "mPaths">>,
     <<"setExcludedPaths", "mExcludedPaths">>, <<"setLibraries", "mLibraries">>,
     <<"setSuppressions", "mSuppressions">>, <<"setAddons", "mAddons">>,
     <<"setTags", "mTags">>, <<"setClangAnalyzer", "mClangAnalyzer">>,
     <<"setClangTidy", "mClangTidy">>, <<"setFilename", "mFilename">>}

(***************************************************************************)
(* C16.  Each setter replaces its member with exactly the value given,     *)
(* whatever the member held before, and leaves every other member as it    *)
(* was.                                                                    *)
(***************************************************************************)
C16_SettersReplace ==
    [][\A st \in Setters :
          Calls(st[1]) =>
              /\ pf'[st[2]] = last'.arg
              /\ \A f \in DOMAIN pf \ {st[2]} : pf'[f] = pf[f]]_vars

\* a setter has replaced a value that was not the default by another one
C16_Witness ==
    /\ last.op = "setTags"
    /\ pf.mTags = <<"b">>
    /\ pf.mAddons = Populated.mAddons

(***************************************************************************)
(* C17.  write reports success if and only if the complete document of     *)
(* the object has been saved to the destination; when the destination      *)
(* cannot be opened it reports failure and no file changes; in both        *)
(* outcomes no member other than the file name changes.                    *)
(***************************************************************************)
C17_WriteResult ==
    [][Calls("write") =>
          LET file == FileAt(disk', pf'.mFilename)
          IN  /\ last'.res \in {"true", "false"}
              /\ last'.res = "true" <=>
                     (file.kind = "xml" /\ file.root = Printed(writeTree(pf)))
              /\ ~Writable(pf'.mFilename) => (last'.res = "false" /\ disk' = disk)
              /\ SameStored(pf', pf)]_vars

\* a write has failed on an object that holds something
C17_Witness ==
    /\ last.op = "write" /\ last.res = "false"
    /\ ~SameStored(pf, NewProjectFile)

\* the result a bool getter reports for a stored toggle
BoolResult(b) == IF b THEN "true" ELSE "false"

(***************************************************************************)
(* C18.  getClangAnalyzer() and getClangTidy() return the value most       *)
(* recently stored in their toggle (by the setter or a read, false after   *)
(* construction), and getClangAnalyzer() agrees with whether               *)
(* getAddonsAndTools() contains the analyzer tool name.                    *)
(***************************************************************************)
C18_ToggleGetters ==
    /\ last.op = "getClangAnalyzer" =>
           /\ last.res = BoolResult(pf.mClangAnalyzer)
           /\ (last.res = "true") <=>
                  (\E i \in 1..Len(AddonsAndTools(pf)) :
                       AddonsAndTools(pf)[i] = CLANG_ANALYZER)
    /\ last.op = "getClangTidy" => last.res = BoolResult(pf.mClangTidy)

\* the attributed list sections: <<wrapper, entry, attribute, member>>
AttrLists ==
    {<<IncludeDirElementName, DirElementName, DirNameAttrib, "mIncludeDirs">>,
     <<DefinesElementName, DefineName, DefineNameAttrib, "mDefines">>,
     <<PathsElementName, PathName, PathNameAttrib, "mPaths">>,
     <<ExcludeElementName, ExcludePathName, ExcludePathNameAttrib, "mExcludedPaths">>}

\* the section has an entry element that yields no value
HasEmptyEntry(project, wrapper, entries, child) ==
    /\ HasChild(project, wrapper)
    /\ Len(entries) < EntryCount(project, wrapper, child)

(***************************************************************************)
(* C19.  Attributed lists skip empty entries: when an includedir, defines, *)
(* paths or exclude section has an entry whose name attribute is missing   *)
(* or empty, the read succeeds and the list holds exactly the non-empty    *)
(* names, in document order.                                               *)
(***************************************************************************)
C19_EmptyNamesSkipped ==
    (last.op \in Readers /\ IsProjectFile(TheFile)
        /\ ~HasChild(TheFile.root, IgnoreElementName)) =>
        \A n \in AttrLists :
            LET entries == AttrEntries(TheFile.root, n[1], n[2], n[3])
            IN  HasEmptyEntry(TheFile.root, n[1], entries, n[2]) =>
                    /\ last.res = "true"
                    /\ FreshRead.pf[n[4]] = entries

\* the text list sections: <<wrapper, entry, member>>
TextLists ==
    {<<UndefinesElementName, UndefineName, "mUndefines">>,
     <<LibrariesElementName, LibraryElementName, "mLibraries">>,
     <<AddonsElementName, AddonElementName, "mAddons">>,
     <<TagsElementName, TagElementName, "mTags">>}

(***************************************************************************)
(* C20.  Text lists skip children without text: when an undefines,         *)
(* libraries, addons or tags section has an entry element with no text,    *)
(* the read returns, the entry adds nothing to the list (no empty string), *)
(* and the entries before and after it are decoded in order.  Stated for   *)
(* documents without unknown elements.                                     *)
(***************************************************************************)
C20_EmptyTextsSkipped ==
    (last.op \in Readers /\ IsProjectFile(TheFile) /\ ~HasUnknown(TheFile.root)) =>
        \A n \in TextLists :
            LET entries == TextEntries(TheFile.root, n[1], n[2])
            IN  HasEmptyEntry(TheFile.root, n[1], entries, n[2]) =>
                    /\ last.res \in {"true", "false"}
                    /\ FreshRead.pf[n[3]] = entries

\* a scalar element without content
IsEmptyScalar(x) ==
    /\ IsElem(x)
    /\ \/ x.n \in {BuildDirElementName, PlatformElementName, ImportProjectElementName}
          /\ x.c = <<>>
       \/ x.n = RootPathName
          /\ (HasAttr(x, RootPathNameAttrib) => AttrVal(x, RootPathNameAttrib) = "")

\* the member a scalar element is read to
ScalarMember(name) ==
    CASE name = RootPathName -> "mRootPath"
      [] name = BuildDirElementName -> "mBuildDir"
      [] name = PlatformElementName -> "mPlatform"
      [] name = ImportProjectElementName -> "mImportProject"

\* the project without its scalar elements that have no content
WithoutEmptyScalars(project) ==
    LET Kept(x) == ~IsEmptyScalar(x) IN [project EXCEPT !.c = SelectSeq(@, Kept)]

(***************************************************************************)
(* C21.  Missing scalar content is tolerated: when a project document has  *)
(* a builddir, platform or importproject element without text, or a root   *)
(* element without a name or with an empty name, read succeeds, that       *)
(* scalar is empty afterwards, and every member is as after reading the    *)
(* document without the element.                                           *)
(***************************************************************************)
C21_EmptyScalarsTolerated ==
    (last.op \in Readers /\ IsProjectFile(TheFile) /\ ~HasUnknown(TheFile.root)
        /\ \E i \in 1..Len(TheFile.root.c) : IsEmptyScalar(TheFile.root.c[i])) =>
        LET plain == [disk EXCEPT ![pf.mFilename] =
                          XmlFile(WithoutEmptyScalars(TheFile.root))]
            x == ReadBy(last.op, NewProjectFile, pf.mFilename, plain)
        IN  /\ last.res = "true"
            /\ \A i \in 1..Len(TheFile.root.c) :
                   IsEmptyScalar(TheFile.root.c[i]) =>
                       FreshRead.pf[ScalarMember(TheFile.root.c[i].n)] = ""
            /\ x.res = "true" /\ SameStored(FreshRead.pf, x.pf)

\* the <suppression> children of the suppressions section, in document order
SuppressionElements(project) ==
    IF ~HasChild(project, SuppressionsElementName) THEN <<>>
    ELSE ChildrenNamed(ChildrenNamed(project, SuppressionsElementName)[1],
                       SuppressionElementName)

(***************************************************************************)
(* C22.  Every suppression child of suppressions yields exactly one        *)
(* Suppression, in document order, also when it has no attribute and no    *)
(* text: the read then still succeeds and the record has an empty error    *)
(* id, file name and symbol name and the no-line sentinel.  Stated for     *)
(* documents without unknown elements.                                     *)
(***************************************************************************)
C22_EverySuppressionKept ==
    (last.op \in Readers /\ IsProjectFile(TheFile) /\ ~HasUnknown(TheFile.root)
        /\ SuppressionElements(TheFile.root) # <<>>) =>
        LET es == SuppressionElements(TheFile.root)
            got == FreshRead.pf.mSuppressions
        IN  /\ last.res = "true"
            /\ Len(got) = Len(es)
            /\ \A i \in 1..Len(es) :
                   /\ got[i].errorId = TextOf(es[i])
                   /\ (es[i].a = {} /\ es[i].c = <<>>) =>
                          got[i] = Suppression("", "", NO_LINE, "")

\* the line number a <suppression> element stands for: the value of its
\* lineNumber attribute when that is a positive integer, else the sentinel
LineOf(e) ==
    IF HasAttr(e, SuppressionLineNumberAttrib)
       /\ Parses(AttrVal(e, SuppressionLineNumberAttrib))
       /\ ParsedInt(AttrVal(e, SuppressionLineNumberAttrib)) > 0
    THEN ParsedInt(AttrVal(e, SuppressionLineNumberAttrib)) ELSE NO_LINE

(***************************************************************************)
(* C23.  Suppression line number on read: the decoded lineNumber is the    *)
(* attribute's integer value when the attribute is present and positive,   *)
(* and the no-line sentinel when it is absent, zero or negative.  Stated   *)
(* for the reads that succeed and decode every suppression element.        *)
(***************************************************************************)
C23_LineNumberDecoded ==
    (last.op \in Readers /\ last.res = "true" /\ IsProjectFile(TheFile)
        /\ Len(FreshRead.pf.mSuppressions) = Len(SuppressionElements(TheFile.root))) =>
        \A i \in 1..Len(SuppressionElements(TheFile.root)) :
            FreshRead.pf.mSuppressions[i].lineNumber =
                LineOf(SuppressionElements(TheFile.root)[i])

\* the attribute key of element e is there exactly when present says so,
\* and then has the value
AttrIff(e, key, present, value) ==
    /\ HasAttr(e, key) <=> present
    /\ present => AttrVal(e, key) = value

(***************************************************************************)
(* C24.  Suppression encoding on write: the written document has exactly   *)
(* one suppression element per suppression of the object, in list order,   *)
(* with the fileName attribute iff the file name is not empty, the         *)
(* lineNumber attribute iff the line number is positive, the symbolName    *)
(* attribute iff the symbol name is not empty, and text iff the error id   *)
(* is not empty.                                                           *)
(***************************************************************************)
C24_SuppressionsOnWrite ==
    (last.op = "write" /\ last.res = "true") =>
        LET es == SuppressionElements(TheFile.root)
            sups == pf.mSuppressions
        IN  /\ Len(es) = Len(sups)
            /\ \A i \in 1..Len(es) :
                   /\ AttrIff(es[i], SuppressionFileNameAttrib,
                              sups[i].fileName # "", sups[i].fileName)
                   /\ AttrIff(es[i], SuppressionLineNumberAttrib,
                              sups[i].lineNumber > 0, to_string(sups[i].lineNumber))
                   /\ AttrIff(es[i], SuppressionSymbolNameAttrib,
                              sups[i].symbolName # "", sups[i].symbolName)
                   /\ \A p \in es[i].a :
                          p[1] \in {SuppressionFileNameAttrib,
                                    SuppressionLineNumberAttrib,
                                    SuppressionSymbolNameAttrib}
                   /\ es[i].c = (IF sups[i].errorId # "" THEN <<Text(sups[i].errorId)>>
                                 ELSE <<>>)

\* an object with an all-empty suppression and one with every field set
\* has been written
C24_Witness ==
    /\ last.op = "write" /\ last.res = "true"
    /\ \E i, j \in 1..Len(pf.mSuppressions) :
           /\ pf.mSuppressions[i] = Suppression("", "", NO_LINE, "")
           /\ pf.mSuppressions[j] = Suppression("b", "a", 3, "b")

\* the project without its tools sections
WithoutTools(project) ==
    LET Kept(x) == ~(IsElem(x) /\ x.n = ToolsElementName)
    IN  [project EXCEPT !.c = SelectSeq(@, Kept)]

\* str is the text of a tool child of tools
IsToolOf(project, str) ==
    LET tools == TextEntries(project, ToolsElementName, ToolElementName)
    IN  \E i \in 1..Len(tools) : tools[i] = str

(***************************************************************************)
(* C25.  Tools decoding: when a project document has a tools section and   *)
(* the document without it is read successfully, then the read succeeds,   *)
(* the analyzer toggle is set iff the analyzer name is the text of a tool  *)
(* child, the linter toggle iff the linter name is, and every other member *)
(* is as after reading the document without the section: a tool with any  *)
(* other text or with no text is stored nowhere.                           *)
(***************************************************************************)
C25_ToolsDecoded ==
    (last.op \in Readers /\ IsProjectFile(TheFile) /\ ~HasUnknown(TheFile.root)
        /\ HasChild(TheFile.root, ToolsElementName)) =>
        LET plain == [disk EXCEPT ![pf.mFilename] = XmlFile(WithoutTools(TheFile.root))]
            x == ReadBy(last.op, NewProjectFile, pf.mFilename, plain)
        IN  x.res = "true" =>
                /\ last.res = "true"
                /\ FreshRead.pf.mClangAnalyzer <=> IsToolOf(TheFile.root, CLANG_ANALYZER)
                /\ FreshRead.pf.mClangTidy <=> IsToolOf(TheFile.root, CLANG_TIDY)
                /\ \A f \in StoredMembers \ {"mClangAnalyzer", "mClangTidy"} :
                       FreshRead.pf[f] = x.pf[f]

\* the texts of the entry elements of a text section, "" for one without text
EntryTexts(project, wrapper, child) ==
    IF ~HasChild(project, wrapper) THEN <<>>
    ELSE LET es == ChildrenNamed(ChildrenNamed(project, wrapper)[1], child)
         IN  [i \in 1..Len(es) |-> TextOf(es[i])]

(***************************************************************************)
(* C26.  The tools section written by write is computed only from the two  *)
(* toggles: it lists the analyzer name iff the analyzer toggle is set,     *)
(* then the linter name iff the linter toggle is set, and is absent when   *)
(* both are off, whatever the addons hold; and the written addons section  *)
(* holds exactly the stored addons.                                        *)
(***************************************************************************)
C26_ToolsFromToggles ==
    (last.op = "write" /\ last.res = "true") =>
        /\ EntryTexts(TheFile.root, ToolsElementName, ToolElementName) =
               (IF pf.mClangAnalyzer THEN <<CLANG_ANALYZER>> ELSE <<>>)
               \o (IF pf.mClangTidy THEN <<CLANG_TIDY>> ELSE <<>>)
        /\ HasChild(TheFile.root, ToolsElementName) <=>
               (pf.mClangAnalyzer \/ pf.mClangTidy)
        /\ Len(ChildrenNamed(TheFile.root, ToolsElementName)) <= 1
        /\ EntryTexts(TheFile.root, AddonsElementName, AddonElementName) = pf.mAddons
        /\ Len(ChildrenNamed(TheFile.root, AddonsElementName)) <= 1

\* an object whose addons name a tool the toggle of which is off has been
\* written
C26_Witness ==
    /\ last.op = "write" /\ last.res = "true"
    /\ \E i \in 1..Len(pf.mAddons) :
           \/ pf.mAddons[i] = CLANG_ANALYZER /\ ~pf.mClangAnalyzer
           \/ pf.mAddons[i] = CLANG_TIDY /\ ~pf.mClangTidy

\* the names of the elements read knows as children of project
KnownNames ==
    {CanonicalOrder[i] : i \in 1..Len(CanonicalOrder)} \cup {IgnoreElementName}

\* the document with nothing left but the project element and its direct
\* children of known names: an element of another name loses its content,
\* and a root of another name keeps only its project children
Pruned(root) ==
    LET Bare(x) == IF IsElem(x) /\ x.n \notin KnownNames THEN [x EXCEPT !.c = <<>>]
                   ELSE x
        Direct(project) == [project EXCEPT !.c = [i \in 1..Len(@) |-> Bare(@[i])]]
        IsProject(x) == IsElem(x) /\ x.n = ProjectElementName
        projects == SelectSeq(root.c, IsProject)
    IN  IF root.n = ProjectElementName THEN Direct(root)
        ELSE [root EXCEPT !.c = [i \in 1..Len(projects) |-> Direct(projects[i])]]

\* the entries of all the sections named wrapper, in document order
RECURSIVE EntriesOfAll(_, _)
EntriesOfAll(wrappers, child) ==
    IF wrappers = <<>> THEN <<>>
    ELSE LET es == ChildrenNamed(Head(wrappers), child)
         IN  [i \in 1..Len(es) |-> TextOf(es[i])] \o EntriesOfAll(Tail(wrappers), child)

(***************************************************************************)
(* C27.  Only direct children of the project element are decoded: a        *)
(* document is read with the same result and to the same members as the    *)
(* document without the elements around the project element and below      *)
(* unknown children of it; and each direct child is handled once, in       *)
(* document order: a text section that occurs twice gives the entries of   *)
(* both.                                                                   *)
(***************************************************************************)
C27_DirectChildrenOnly ==
    (last.op \in Readers /\ last.res \in {"true", "false"} /\ TheFile.kind = "xml") =>
        LET plain == [disk EXCEPT ![pf.mFilename] = XmlFile(Pruned(TheFile.root))]
            x == ReadBy(last.op, NewProjectFile, pf.mFilename, plain)
        IN  /\ x.res = FreshRead.res /\ SameStored(x.pf, FreshRead.pf)
            /\ \A n \in TextLists :
                   (IsProjectFile(TheFile) /\ last.res = "true"
                       /\ Len(ChildrenNamed(TheFile.root, n[1])) > 1) =>
                       FreshRead.pf[n[3]] =
                           EntriesOfAll(ChildrenNamed(TheFile.root, n[1]), n[2])

(***************************************************************************)
(* C28.  read terminates on every input: whatever the file holds, also a   *)
(* document that breaks off inside a scalar element or a list wrapper, no  *)
(* read loops forever on the tokens the reader returns after the error.    *)
(***************************************************************************)
C28_ReadTerminates ==
    last.op \in Readers => last.res # "hang"

\* the streaming reader before its first readNext()
StreamStart ==
    [m |-> clear(NewProjectFile), pos |-> 0, res |-> "run", inside |-> FALSE,
     found |-> FALSE]

(***************************************************************************)
(* C29.  In the streaming read of a well-formed document, each start tag   *)
(* the main loop sees starts at most one decoding routine: after a routine *)
(* has returned, no later name test of the same pass matches the token the *)
(* reader then rests on and starts a second routine.                       *)
(***************************************************************************)
C29_OneRoutinePerTag ==
    (last.op = "readStream" /\ TheFile.kind = "xml") =>
        MostDecodings(Tokens(TheFile), StreamStart) <= 1

(***************************************************************************)
(* C30.  Filename tracking: a read or write that returns, called with a    *)
(* non-empty name, leaves that name stored whether it succeeded or failed, *)
(* and has worked on the file of that name; called with the empty name it  *)
(* works on the stored name and leaves it unchanged; the reset of a read   *)
(* never clears the name; and getFilename returns the stored name.         *)
(***************************************************************************)
C30_FilenameTracked ==
    [][/\ \A op \in Readers \cup {"write"} :
              (Calls(op) /\ last'.res \in {"true", "false"}) =>
                  /\ pf'.mFilename = (IF last'.arg # "" THEN last'.arg ELSE pf.mFilename)
                  /\ op = "write" =>
                         (last'.res = "true" <=> Writable(pf'.mFilename))
                  /\ op \in Readers =>
                         (FileAt(disk, pf'.mFilename).kind = "missing" =>
                              last'.res = "false")
                  /\ (op = "readDom" /\ last'.res = "true") =>
                         IsProjectFile(FileAt(disk, pf'.mFilename))
       /\ Calls("getFilename") => (last'.res = pf.mFilename /\ pf' = pf)]_vars

\* a read of a file that does not exist has failed and left its name stored
C30_Witness ==
    /\ last.op \in Readers /\ last.arg = BadName /\ last.res = "false"
    /\ pf.mFilename = BadName

====
